---- MODULE Spec2Model ----
(***************************************************************************)
(* Bookstore back-office API (Express + Prisma).  The model follows every  *)
(* HTTP request from its arrival (app-level mount, router stack,           *)
(* authMiddleware, route matching) through its controller, one step per    *)
(* store round trip (each `await prisma...`), so that requests interleave  *)
(* exactly where the code suspends.                                        *)
(***************************************************************************)
EXTENDS Integers, Sequences, FiniteSets, TLC

VARIABLES
    books,      \* Book table: id -> row
    orders,     \* Order table with nested OrderItem rows, in creation order
    users,      \* User table, in creation order
    genres,     \* Genre table: id -> row
    req,        \* request slots: the requests in flight, with their locals
    last,       \* the request answered most recently, as it ended
    nreq        \* number of requests received so far

vars == <<books, orders, users, genres, req, last, nreq>>

----------------------------------------------------------------------------
(* Bounds of the model *)

MaxSlots == 2       \* requests in flight at the same time
MaxRequests == 3    \* requests received in one behaviour
MaxQty == 2         \* largest quantity of a line item
MaxStock == 2       \* largest stock_quantity a book starts with

Slots == 1..MaxSlots

BookIds == {"b1", "b2"}
BookIdSeq == <<"b1", "b2">>      \* the books in title order
GenreIds == {"g1", "g2"}
GenreIdSeq == <<"g1", "g2">>    \* the genres in name order
UserIds == {"u1", "u2"}         \* the users registered at the start
UserIdSeq == <<"u1", "u2", "u3", "u4", "u5", "u6">>
NoId == "-"

\* Order ids, in the order the store hands them out.
OrderIdSeq == <<"o1", "o2", "o3", "o4", "o5", "o6">>

TitleOf(b) == IF b = "b1" THEN "t1" ELSE "t2"
GenreOf(b) == IF b = "b1" THEN "g1" ELSE "g2"
NameOf(g) == IF g = "g1" THEN "n1" ELSE "n2"
EmailOf(u) == IF u = "u1" THEN "e1" ELSE IF u = "u2" THEN "e2" ELSE "e3"

----------------------------------------------------------------------------
(* Sequences helpers *)

RECURSIVE SumSeq(_)
SumSeq(s) == IF s = <<>> THEN 0 ELSE Head(s) + SumSeq(Tail(s))

RECURSIVE Flatten(_)
Flatten(ss) == IF ss = <<>> THEN <<>> ELSE Head(ss) \o Flatten(Tail(ss))

----------------------------------------------------------------------------
(* HTTP input: Authorization header and bearer tokens *)

\* A token as jwt.sign produced it (or not): signature, expiry, payload.
Token(sig, expired, id) == [sig |-> sig, expired |-> expired, id |-> id, email |-> EmailOf(id)]

NoHeader == [scheme |-> "none", token |-> Token("bad", FALSE, NoId)]
Bearer(t) == [scheme |-> "Bearer", token |-> t]
Basic(t) == [scheme |-> "Basic", token |-> t]

NoUser == [set |-> FALSE, id |-> NoId, email |-> NoId]

\* jwt.verify(token, JWT_SECRET): the payload, or a throw.
jwtVerify(token) == token.sig = "ok" /\ ~token.expired

\* A middleware that decodes the token without verifying it.
authMiddleware_NoVerify(auth) ==
    [next |-> TRUE, status |-> 0, message |-> "",
     user |-> [set |-> TRUE, id |-> auth.token.id, email |-> auth.token.email]]

\* authMiddleware: 401 or next() with req.user = decoded.
authMiddleware(auth) ==
    IF auth.scheme # "Bearer"
    THEN [next |-> FALSE, status |-> 401, message |-> "No token provided", user |-> NoUser]
    ELSE IF ~jwtVerify(auth.token)
         THEN [next |-> FALSE, status |-> 401, message |-> "Invalid or expired token",
               user |-> NoUser]
         ELSE [next |-> TRUE, status |-> 0, message |-> "",
               user |-> [set |-> TRUE, id |-> auth.token.id, email |-> auth.token.email]]

----------------------------------------------------------------------------
(* Routers: the layers of each router in registration order *)

Use(mw) == [kind |-> "use", method |-> "*", pattern |-> <<>>, handler |-> mw]
Route(method, pattern, handler) ==
    [kind |-> "route", method |-> method, pattern |-> pattern, handler |-> handler]
Lit(s) == [param |-> FALSE, name |-> s]
Param(s) == [param |-> TRUE, name |-> s]

transactionsRouter ==
    << Use("authMiddleware"),
       Route("POST", <<>>, "createTransaction"),
       Route("GET", <<>>, "getTransactions"),
       Route("GET", <<Param("id")>>, "getTransactionById"),
       Route("GET", <<Lit("statistics")>>, "getStatistics") >>

\* The second transactions router among the sources: authMiddleware again on
\* every route, and /statistics registered before /:id.
UseOn(method, pattern, mw) ==
    [kind |-> "use", method |-> method, pattern |-> pattern, handler |-> mw]

transactionsRouterVariant ==
    << Use("authMiddleware"),
       UseOn("POST", <<>>, "authMiddleware"),
       Route("POST", <<>>, "createTransaction"),
       UseOn("GET", <<>>, "authMiddleware"),
       Route("GET", <<>>, "getTransactions"),
       UseOn("GET", <<Lit("statistics")>>, "authMiddleware"),
       Route("GET", <<Lit("statistics")>>, "getStatistics"),
       UseOn("GET", <<Param("id")>>, "authMiddleware"),
       Route("GET", <<Param("id")>>, "getTransactionById") >>

booksRouter ==
    << Use("authMiddleware"),
       Route("POST", <<>>, "createBook"),
       Route("GET", <<>>, "getBooks"),
       Route("GET", <<Lit("genre"), Param("genre_id")>>, "getBooksByGenre"),
       Route("GET", <<Param("id")>>, "getBookById"),
       Route("PATCH", <<Param("id")>>, "updateBook"),
       Route("DELETE", <<Param("id")>>, "deleteBook") >>

genreRouter ==
    << Use("authMiddleware"),
       Route("POST", <<>>, "createGenre"),
       Route("GET", <<>>, "getGenres"),
       Route("GET", <<Param("id")>>, "getGenreById"),
       Route("PATCH", <<Param("id")>>, "updateGenre"),
       Route("DELETE", <<Param("id")>>, "deleteGenre") >>

\* The auth router's file is not among the sources; the spec lists its routes.
\* The model follows the registration route.
authRouter ==
    << Route("POST", <<Lit("register")>>, "register") >>

\* app.use(<mount>, <router>) of index.ts; txRouter is the module that
\* ./routes/transactions.route resolves to.
RouterOf(mount, txRouter) ==
    CASE mount = "auth" -> authRouter
      [] mount = "genres" -> genreRouter
      [] mount = "books" -> booksRouter
      [] mount = "transactions" -> txRouter
      [] OTHER -> <<>>

\* A route's path pattern matches the whole remaining path; a :param segment
\* matches any one segment.
Matches(layer, method, path) ==
    /\ layer.method = method
    /\ Len(layer.pattern) = Len(path)
    /\ \A k \in 1..Len(path) : layer.pattern[k].param \/ layer.pattern[k].name = path[k]

\* req.params of a matched route (this API's routes have at most one parameter).
ParamsOf(layer, path) ==
    IF \E k \in 1..Len(path) : layer.pattern[k].param
    THEN path[CHOOSE k \in 1..Len(path) : layer.pattern[k].param]
    ELSE NoId

\* Walk the router's stack from layer k: a middleware answers or calls next(),
\* the first matching route's controller handles the request and ends the walk.
RECURSIVE Walk(_, _, _, _, _, _)
Walk(stack, k, method, path, auth, user) ==
    IF k > Len(stack)
    THEN [status |-> 404, message |-> "Not Found", handler |-> "none",
          user |-> user, id |-> NoId]
    ELSE LET layer == stack[k] IN
         IF layer.kind = "use"
         THEN IF layer.method # "*" /\ ~Matches(layer, method, path)
              THEN Walk(stack, k + 1, method, path, auth, user)
              ELSE
              LET a == authMiddleware(auth) IN
              IF a.next
              THEN Walk(stack, k + 1, method, path, auth, a.user)
              ELSE [status |-> a.status, message |-> a.message, handler |-> "none",
                    user |-> user, id |-> NoId]
         ELSE IF Matches(layer, method, path)
              THEN [status |-> 0, message |-> "", handler |-> layer.handler,
                    user |-> user, id |-> ParamsOf(layer, path)]
              ELSE Walk(stack, k + 1, method, path, auth, user)

Dispatch(router, method, path, auth) == Walk(router, 1, method, path, auth, NoUser)

----------------------------------------------------------------------------
(* The store (Prisma client calls) *)

NoBook == [exists |-> FALSE, id |-> NoId, title |-> NoId, price |-> 0,
           stock_quantity |-> 0, genre_id |-> NoId, deleted |-> FALSE]
NoGenre == [exists |-> FALSE, id |-> NoId, name |-> NoId, deleted |-> FALSE]
NoOrder == [exists |-> FALSE, id |-> NoId, user_id |-> NoId, items |-> <<>>]

\* A lookup without the deleted_at: null filter.
findFirstBook_AnyDeleted(bks, id) ==
    IF id \in BookIds /\ bks[id].exists THEN bks[id] ELSE NoBook

\* prisma.book.findFirst({ where: { id, deleted_at: null } })
findFirstBook(bks, id) ==
    IF id \in BookIds /\ bks[id].exists /\ ~bks[id].deleted THEN bks[id] ELSE NoBook

\* prisma.genre.findFirst({ where: { id, deleted_at: null } })
findFirstGenre(gs, id) ==
    IF id \in GenreIds /\ gs[id].exists /\ ~gs[id].deleted THEN gs[id] ELSE NoGenre

\* include: { book: { select: { id, title, price } } } on an OrderItem row
WithBook(bks, item) ==
    [book_id |-> item.book_id, quantity |-> item.quantity,
     book |-> [id |-> item.book_id, title |-> bks[item.book_id].title,
               price |-> bks[item.book_id].price]]

\* include: { user: ..., items: { include: { book: ... } } } on an Order row
WithItems(bks, o) ==
    [exists |-> TRUE, id |-> o.id, user_id |-> o.user_id,
     items |-> [k \in 1..Len(o.items) |-> WithBook(bks, o.items[k])]]

\* prisma.order.findUnique({ where: { id }, include })
findUniqueOrder(os, bks, id) ==
    IF \E k \in 1..Len(os) : os[k].id = id
    THEN WithItems(bks, os[CHOOSE k \in 1..Len(os) : os[k].id = id])
    ELSE NoOrder

\* prisma.order.findMany({ where, include, orderBy: { created_at: "desc" } })
Reverse(s) == [k \in 1..Len(s) |-> s[Len(s) + 1 - k]]
findManyOrders(os, bks, showAll, userId) ==
    LET mine == SelectSeq(os, LAMBDA o : showAll \/ o.user_id = userId)
    IN  Reverse([k \in 1..Len(mine) |-> WithItems(bks, mine[k])])

\* prisma.orderItem.findMany({ include: { book: true } })
findManyOrderItems(os, bks) ==
    Flatten([k \in 1..Len(os) |-> WithItems(bks, os[k]).items])

\* prisma.book.update({ where: { id }, data: { stock_quantity: { decrement } } })
DecrementStock(bks, item) ==
    [bks EXCEPT ![item.book_id].stock_quantity = @ - item.quantity]

\* prisma.book.findMany({ where: { deleted_at: null, OR: search }, skip, take,
\*                        orderBy: { title: "asc" } }) of getBooks
ActiveBooks(bks, search) ==
    SelectSeq(BookIdSeq, LAMBDA b :
        /\ bks[b].exists
        /\ ~bks[b].deleted
        /\ (search = NoId \/ bks[b].title = search))

Min(a, b) == IF a < b THEN a ELSE b

SkipTake(s, skip, take) == SubSeq(s, skip + 1, Min(skip + take, Len(s)))

\* Math.ceil(total / limit)
CeilDiv(total, limit) == (total + limit - 1) \div limit

\* password: z.string().min(6)
MinPasswordLen == 6

\* The User table's email column is unique: email is the key of
\* prisma.user.findUnique, and the data model of the spec says so.  The schema
\* file is not among the sources.
EmailUnique == TRUE

----------------------------------------------------------------------------
(* Request slots *)

NoData == [none |-> TRUE]
NoLoc == [none |-> TRUE]
NoBody == [none |-> TRUE]

IdleReq ==
    [pc |-> "idle", method |-> "", mount |-> "", path |-> <<>>, auth |-> NoHeader,
     body |-> NoBody, query |-> NoBody, user |-> NoUser, handler |-> "none", id |-> NoId,
     gone |-> {}, loc |-> NoLoc, status |-> 0, message |-> "", data |-> NoData]

\* res.status(status).json(response(success, message, data)): the request ends.
Respond(rq, status, message, data) ==
    [rq EXCEPT !.pc = "done", !.status = status, !.message = message, !.data = data]

\* The request in slot r moves on to `nxt`; once answered it leaves its slot.
Commit(r, nxt) ==
    IF nxt.pc = "done"
    THEN req' = [req EXCEPT ![r] = IdleReq] /\ last' = nxt
    ELSE req' = [req EXCEPT ![r] = nxt] /\ last' = last

----------------------------------------------------------------------------
(* createTransaction *)

\* The operands the other way round: req.body.user_id || req.user?.id
UserIdOf_BodyFirst(user, body) ==
    IF body.user_id # NoId THEN body.user_id ELSE user.id

\* const userId = (req as any).user?.id || req.body.user_id
UserIdOf(user, body) ==
    IF user.set /\ user.id # NoId THEN user.id ELSE body.user_id

\* schema.safeParse(req.body): items non-empty, every quantity a positive integer
ParseItems(body) == Len(body.items) >= 1 /\ \A k \in 1..Len(body.items) : body.items[k].quantity > 0

\* book.stock_quantity < item.quantity
InsufficientStock(book, item) == book.stock_quantity < item.quantity

\* A validation loop that stops after its first item.
LastItem_First(i, items) == i >= 1

\* The validation loop's exit: item i was the last one.
LastItem(i, items) == i >= Len(items)

\* A total that leaves the quantity out.
totalPrice_Unit(items) == SumSeq([k \in 1..Len(items) |-> items[k].book.price])

\* order.items.reduce((sum, i) => sum + i.book.price * i.quantity, 0)
totalPrice(items) == SumSeq([k \in 1..Len(items) |-> items[k].book.price * items[k].quantity])

\* The synchronous start of the controller: userId, schema check.
createTransaction_begin(rq) ==
    IF ~ParseItems(rq.body)
    THEN Respond(rq, 400, "Validation error", NoData)
    ELSE [rq EXCEPT !.pc = "tx_validate",
                    !.loc = [userId |-> UserIdOf(rq.user, rq.body), items |-> rq.body.items,
                             i |-> 1, j |-> 1, order |-> NoOrder]]

\* One turn of the validation loop: findFirst, then the two checks.
TxValidate(r) ==
    /\ req[r].pc = "tx_validate"
    /\ LET rq == req[r]
           item == rq.loc.items[rq.loc.i]
           book == findFirstBook(books, item.book_id)
       IN  Commit(r,
                IF ~book.exists
                THEN Respond(rq, 404, "Book not found", NoData)
                ELSE IF InsufficientStock(book, item)
                THEN Respond(rq, 400, "Insufficient stock", NoData)
                ELSE [rq EXCEPT !.loc.i = @ + 1,
                                !.pc = IF LastItem(rq.loc.i, rq.loc.items)
                                       THEN "tx_create" ELSE "tx_validate"])
    /\ UNCHANGED <<books, orders, users, genres, nreq>>

\* prisma.order.create with nested items, returning the order with its books.
TxCreate(r) ==
    /\ req[r].pc = "tx_create"
    /\ Len(orders) < Len(OrderIdSeq)
    /\ LET rq == req[r]
           row == [id |-> OrderIdSeq[Len(orders) + 1], user_id |-> rq.loc.userId,
                   items |-> [k \in 1..Len(rq.loc.items) |->
                                 [book_id |-> rq.loc.items[k].book_id,
                                  quantity |-> rq.loc.items[k].quantity]]]
       IN  /\ orders' = Append(orders, row)
           /\ Commit(r, [rq EXCEPT !.pc = "tx_decrement",
                                                   !.loc.order = WithItems(books, row)])
    /\ UNCHANGED <<books, users, genres, nreq>>

\* One turn of the decrement loop; after the last one the response is computed.
TxDecrement(r) ==
    /\ req[r].pc = "tx_decrement"
    /\ LET rq == req[r]
           item == rq.loc.items[rq.loc.j]
           order == rq.loc.order
       IN  /\ books' = DecrementStock(books, item)
           /\ Commit(r,
                IF rq.loc.j < Len(rq.loc.items)
                THEN [rq EXCEPT !.loc.j = @ + 1]
                ELSE Respond([rq EXCEPT !.loc.j = @ + 1], 201, "Transaction created successfully",
                        [order_id |-> order.id, user_id |-> rq.loc.userId,
                         total_price |-> totalPrice(order.items),
                         items |-> [k \in 1..Len(order.items) |->
                            [book_id |-> order.items[k].book.id,
                             title |-> order.items[k].book.title,
                             quantity |-> order.items[k].quantity,
                             price_each |-> order.items[k].book.price,
                             subtotal |-> order.items[k].book.price * order.items[k].quantity]]]))
    /\ UNCHANGED <<orders, users, genres, nreq>>

----------------------------------------------------------------------------
(* getTransactions, getTransactionById, getStatistics *)

\* findMany with where = showAll ? {} : { user_id: userId }
GetTransactions(r) ==
    /\ req[r].pc = "gt_find"
    /\ LET rq == req[r] IN
       Commit(r,
            Respond(rq, 200, "Transactions fetched successfully",
                    [list |-> findManyOrders(orders, books, rq.query.all, rq.user.id)]))
    /\ UNCHANGED <<books, orders, users, genres, nreq>>

GetTransactionById(r) ==
    /\ req[r].pc = "gi_find"
    /\ LET rq == req[r]
           order == findUniqueOrder(orders, books, rq.id)
       IN  Commit(r,
                IF ~order.exists
                THEN Respond(rq, 404, "Transaction not found", NoData)
                ELSE Respond(rq, 200, "Transaction fetched successfully", [order |-> order]))
    /\ UNCHANGED <<books, orders, users, genres, nreq>>

\* orderItems.forEach: totalBooksSold += quantity; totalRevenue += book.price * quantity
totalBooksSold(orderItems) == SumSeq([k \in 1..Len(orderItems) |-> orderItems[k].quantity])

\* A revenue that leaves the quantity out.
totalRevenue_Unit(orderItems) ==
    SumSeq([k \in 1..Len(orderItems) |-> orderItems[k].book.price])

\* totalRevenue += book.price * quantity
totalRevenue(orderItems) ==
    SumSeq([k \in 1..Len(orderItems) |-> orderItems[k].book.price * orderItems[k].quantity])

\* await prisma.order.count()
StatsCount(r) ==
    /\ req[r].pc = "st_count"
    /\ Commit(r, [req[r] EXCEPT !.pc = "st_items",
                                 !.loc = [totalTransactions |-> Len(orders)]])
    /\ UNCHANGED <<books, orders, users, genres, nreq>>

\* await prisma.orderItem.findMany({ include: { book: true } }), then the sums
StatsItems(r) ==
    /\ req[r].pc = "st_items"
    /\ LET rq == req[r]
           orderItems == findManyOrderItems(orders, books)
       IN  Commit(r,
                Respond(rq, 200, "Statistics fetched successfully",
                        [totalTransactions |-> rq.loc.totalTransactions,
                         totalBooksSold |-> totalBooksSold(orderItems),
                         totalRevenue |-> totalRevenue(orderItems)]))
    /\ UNCHANGED <<books, orders, users, genres, nreq>>

----------------------------------------------------------------------------
(* Books controller: getBooks, getBooksByGenre, getBookById, updateBook, deleteBook *)

\* Promise.all([findMany, count]) with skip = (page - 1) * limit, take = limit
GetBooks(r) ==
    /\ req[r].pc = "gb_find"
    /\ LET rq == req[r]
           found == ActiveBooks(books, rq.query.search)
           skip == (rq.query.page - 1) * rq.query.limit
       IN  Commit(r,
                Respond(rq, 200, "Books fetched successfully",
                        [list |-> SkipTake(found, skip, rq.query.limit),
                         total |-> Len(found), page |-> rq.query.page,
                         limit |-> rq.query.limit,
                         totalPages |-> CeilDiv(Len(found), rq.query.limit)]))
    /\ UNCHANGED <<books, orders, users, genres, nreq>>

GetBooksByGenreFind(r) ==
    /\ req[r].pc = "gg_genre"
    /\ LET rq == req[r]
           genre == findFirstGenre(genres, rq.id)
       IN  Commit(r,
                IF ~genre.exists
                THEN Respond(rq, 404, "Genre not found", NoData)
                ELSE [rq EXCEPT !.pc = "gg_books"])
    /\ UNCHANGED <<books, orders, users, genres, nreq>>

\* prisma.book.findMany({ where: { genre_id, deleted_at: null } })
GetBooksByGenreList(r) ==
    /\ req[r].pc = "gg_books"
    /\ LET rq == req[r] IN
       Commit(r,
            Respond(rq, 200, "Books fetched successfully",
                    [list |-> SelectSeq(ActiveBooks(books, NoId),
                                        LAMBDA b : books[b].genre_id = rq.id)]))
    /\ UNCHANGED <<books, orders, users, genres, nreq>>

GetBookById(r) ==
    /\ req[r].pc = "gk_find"
    /\ LET rq == req[r]
           book == findFirstBook(books, rq.id)
       IN  Commit(r,
                IF ~book.exists
                THEN Respond(rq, 404, "Book not found", NoData)
                ELSE Respond(rq, 200, "Book fetched successfully", [book |-> book]))
    /\ UNCHANGED <<books, orders, users, genres, nreq>>

\* bookSchema.partial().safeParse(req.body): price positive, stock_quantity a
\* non-negative integer, each only when present.  (The patches of the model
\* carry price and stock_quantity; unknown keys are stripped by the schema.)
ParsePatch(body) ==
    /\ body.has_price => body.price > 0
    /\ body.has_stock => body.stock_quantity >= 0

updateBook_begin(rq) ==
    IF ~ParsePatch(rq.body)
    THEN Respond(rq, 400, "Validation error", NoData)
    ELSE [rq EXCEPT !.pc = "ub_find"]

UpdateBookFind(r) ==
    /\ req[r].pc = "ub_find"
    /\ LET rq == req[r]
           existing == findFirstBook(books, rq.id)
       IN  Commit(r,
                IF ~existing.exists
                THEN Respond(rq, 404, "Book not found", NoData)
                ELSE [rq EXCEPT !.pc = "ub_update"])
    /\ UNCHANGED <<books, orders, users, genres, nreq>>

\* prisma.book.update({ where: { id }, data: parsed.data })
UpdateBookWrite(r) ==
    /\ req[r].pc = "ub_update"
    /\ LET rq == req[r]
           old == books[rq.id]
           new == [old EXCEPT !.price = IF rq.body.has_price THEN rq.body.price ELSE @,
                              !.stock_quantity = IF rq.body.has_stock
                                                 THEN rq.body.stock_quantity ELSE @]
       IN  /\ books' = [books EXCEPT ![rq.id] = new]
           /\ Commit(r,
                Respond(rq, 200, "Book updated successfully", [book |-> new]))
    /\ UNCHANGED <<orders, users, genres, nreq>>

DeleteBookFind(r) ==
    /\ req[r].pc = "db_find"
    /\ LET rq == req[r]
           book == findFirstBook(books, rq.id)
       IN  Commit(r,
                IF ~book.exists
                THEN Respond(rq, 404, "Book not found", NoData)
                ELSE [rq EXCEPT !.pc = "db_update"])
    /\ UNCHANGED <<books, orders, users, genres, nreq>>

\* prisma.book.update({ where: { id }, data: { deleted_at: new Date() } })
DeleteBookWrite(r) ==
    /\ req[r].pc = "db_update"
    /\ LET rq == req[r] IN
       /\ books' = [books EXCEPT ![rq.id].deleted = TRUE]
       /\ Commit(r, Respond(rq, 200, "Book deleted successfully", NoData))
    /\ UNCHANGED <<orders, users, genres, nreq>>

\* prisma.book.findUnique({ where: { title } }): soft-deleted rows included
findUniqueTitle(bks, title) == \E b \in BookIds : bks[b].exists /\ bks[b].title = title

\* prisma.genre.findUnique({ where: { name } })
findUniqueName(gs, name) == \E g \in GenreIds : gs[g].exists /\ gs[g].name = name

createBook_begin(rq) ==
    IF ~(rq.body.price > 0 /\ rq.body.stock_quantity >= 0)
    THEN Respond(rq, 400, "Validation error", NoData)
    ELSE [rq EXCEPT !.pc = "cb_genre"]

CreateBookGenre(r) ==
    /\ req[r].pc = "cb_genre"
    /\ LET rq == req[r]
           genre == findFirstGenre(genres, rq.body.genre_id)
       IN  Commit(r,
                IF ~genre.exists
                THEN Respond(rq, 404, "Genre not found", NoData)
                ELSE [rq EXCEPT !.pc = "cb_title"])
    /\ UNCHANGED <<books, orders, users, genres, nreq>>

CreateBookTitle(r) ==
    /\ req[r].pc = "cb_title"
    /\ LET rq == req[r] IN
       Commit(r,
            IF findUniqueTitle(books, rq.body.title)
            THEN Respond(rq, 409, "Book title already exists", NoData)
            ELSE [rq EXCEPT !.pc = "cb_create"])
    /\ UNCHANGED <<books, orders, users, genres, nreq>>

\* prisma.book.create: the title column is unique (it is a findUnique key), so
\* a duplicate makes create throw, which the controller's catch answers 500.
CreateBookWrite(r) ==
    /\ req[r].pc = "cb_create"
    /\ LET rq == req[r] IN
       IF findUniqueTitle(books, rq.body.title)
       THEN /\ Commit(r, Respond(rq, 500, "Internal server error", NoData))
            /\ books' = books
       ELSE /\ \E b \in BookIds : ~books[b].exists
            /\ LET id == CHOOSE b \in BookIds : ~books[b].exists
                   row == [exists |-> TRUE, id |-> id, title |-> rq.body.title,
                           price |-> rq.body.price,
                           stock_quantity |-> rq.body.stock_quantity,
                           genre_id |-> rq.body.genre_id, deleted |-> FALSE]
               IN  /\ books' = [books EXCEPT ![id] = row]
                   /\ Commit(r,
                        Respond(rq, 201, "Book created successfully", [book |-> row]))
    /\ UNCHANGED <<orders, users, genres, nreq>>

----------------------------------------------------------------------------
(* Genre controller *)

createGenre_begin(rq) ==
    IF rq.body.name = ""
    THEN Respond(rq, 400, "Validation error", NoData)
    ELSE [rq EXCEPT !.pc = "cg_find"]

CreateGenreFind(r) ==
    /\ req[r].pc = "cg_find"
    /\ LET rq == req[r] IN
       Commit(r,
            IF findUniqueName(genres, rq.body.name)
            THEN Respond(rq, 409, "Genre already exists", NoData)
            ELSE [rq EXCEPT !.pc = "cg_create"])
    /\ UNCHANGED <<books, orders, users, genres, nreq>>

\* prisma.genre.create: name is unique, a duplicate throws (500).
CreateGenreWrite(r) ==
    /\ req[r].pc = "cg_create"
    /\ LET rq == req[r] IN
       IF findUniqueName(genres, rq.body.name)
       THEN /\ Commit(r, Respond(rq, 500, "Internal server error", NoData))
            /\ genres' = genres
       ELSE /\ \E g \in GenreIds : ~genres[g].exists
            /\ LET id == CHOOSE g \in GenreIds : ~genres[g].exists
                   row == [exists |-> TRUE, id |-> id, name |-> rq.body.name, deleted |-> FALSE]
               IN  /\ genres' = [genres EXCEPT ![id] = row]
                   /\ Commit(r,
                        Respond(rq, 201, "Genre created successfully", [genre |-> row]))
    /\ UNCHANGED <<books, orders, users, nreq>>

\* findMany({ where: { deleted_at: null, name: { contains } }, skip, take,
\*            orderBy: { name: "asc" } }) and count
GetGenres(r) ==
    /\ req[r].pc = "gl_find"
    /\ LET rq == req[r]
           found == SelectSeq(GenreIdSeq, LAMBDA g :
                        /\ genres[g].exists
                        /\ ~genres[g].deleted
                        /\ (rq.query.search = NoId \/ genres[g].name = rq.query.search))
           skip == (rq.query.page - 1) * rq.query.limit
       IN  Commit(r,
                Respond(rq, 200, "Genres fetched successfully",
                        [list |-> SkipTake(found, skip, rq.query.limit),
                         total |-> Len(found), page |-> rq.query.page,
                         limit |-> rq.query.limit,
                         totalPages |-> CeilDiv(Len(found), rq.query.limit)]))
    /\ UNCHANGED <<books, orders, users, genres, nreq>>

GetGenreById(r) ==
    /\ req[r].pc = "ge_find"
    /\ LET rq == req[r]
           genre == findFirstGenre(genres, rq.id)
       IN  Commit(r,
                IF ~genre.exists
                THEN Respond(rq, 404, "Genre not found", NoData)
                ELSE Respond(rq, 200, "Genre fetched successfully", [genre |-> genre]))
    /\ UNCHANGED <<books, orders, users, genres, nreq>>

updateGenre_begin(rq) ==
    IF rq.body.name = ""
    THEN Respond(rq, 400, "Validation error", NoData)
    ELSE [rq EXCEPT !.pc = "ug_find"]

UpdateGenreFind(r) ==
    /\ req[r].pc = "ug_find"
    /\ LET rq == req[r]
           existing == findFirstGenre(genres, rq.id)
       IN  Commit(r,
                IF ~existing.exists
                THEN Respond(rq, 404, "Genre not found", NoData)
                ELSE [rq EXCEPT !.pc = "ug_update"])
    /\ UNCHANGED <<books, orders, users, genres, nreq>>

\* prisma.genre.update({ where: { id }, data: { name } }): a name another row
\* holds makes update throw (500).
UpdateGenreWrite(r) ==
    /\ req[r].pc = "ug_update"
    /\ LET rq == req[r] IN
       IF \E g \in GenreIds \ {rq.id} : genres[g].exists /\ genres[g].name = rq.body.name
       THEN /\ Commit(r, Respond(rq, 500, "Internal server error", NoData))
            /\ genres' = genres
       ELSE /\ genres' = [genres EXCEPT ![rq.id].name = rq.body.name]
            /\ Commit(r,
                    Respond(rq, 200, "Genre updated successfully", [genre |-> genres'[rq.id]]))
    /\ UNCHANGED <<books, orders, users, nreq>>

DeleteGenreFind(r) ==
    /\ req[r].pc = "dg_find"
    /\ LET rq == req[r]
           genre == findFirstGenre(genres, rq.id)
       IN  Commit(r,
                IF ~genre.exists
                THEN Respond(rq, 404, "Genre not found", NoData)
                ELSE [rq EXCEPT !.pc = "dg_update"])
    /\ UNCHANGED <<books, orders, users, genres, nreq>>

DeleteGenreWrite(r) ==
    /\ req[r].pc = "dg_update"
    /\ LET rq == req[r] IN
       /\ genres' = [genres EXCEPT ![rq.id].deleted = TRUE]
       /\ Commit(r, Respond(rq, 200, "Genre deleted successfully", NoData))
    /\ UNCHANGED <<books, orders, users, nreq>>

----------------------------------------------------------------------------
(* register *)

\* registerSchema.safeParse: email format, password of at least 6 characters
ParseRegister(body) == body.email_ok /\ body.password_len >= MinPasswordLen

\* prisma.user.findUnique({ where: { email } })
findUniqueEmail(us, email) == \E k \in 1..Len(us) : us[k].email = email

register_begin(rq) ==
    IF ~ParseRegister(rq.body)
    THEN Respond(rq, 400, "Validation error", NoData)
    ELSE [rq EXCEPT !.pc = "rg_find"]

RegisterFind(r) ==
    /\ req[r].pc = "rg_find"
    /\ LET rq == req[r] IN
       Commit(r,
            IF findUniqueEmail(users, rq.body.email)
            THEN Respond(rq, 409, "Email already registered", NoData)
            ELSE [rq EXCEPT !.pc = "rg_create"])
    /\ UNCHANGED <<books, orders, users, genres, nreq>>

\* bcrypt.hash, then prisma.user.create.
RegisterWrite(r) ==
    /\ req[r].pc = "rg_create"
    /\ Len(users) < Len(UserIdSeq)
    /\ LET rq == req[r] IN
       IF EmailUnique /\ findUniqueEmail(users, rq.body.email)
       THEN /\ Commit(r, Respond(rq, 500, "Internal server error", NoData))
            /\ users' = users
       ELSE LET row == [id |-> UserIdSeq[Len(users) + 1], email |-> rq.body.email,
                        hashed |-> TRUE]
            IN  /\ users' = Append(users, row)
                /\ Commit(r,
                        Respond(rq, 201, "User registered successfully",
                                [id |-> row.id, email |-> row.email]))
    /\ UNCHANGED <<books, orders, genres, nreq>>

----------------------------------------------------------------------------
(* Arrival of a request: the router stack, then the controller's start *)

\* The controller's code up to its first await.
Begin(rq) ==
    CASE rq.handler = "createTransaction" -> createTransaction_begin(rq)
      [] rq.handler = "getTransactions" -> [rq EXCEPT !.pc = "gt_find"]
      [] rq.handler = "getTransactionById" -> [rq EXCEPT !.pc = "gi_find"]
      [] rq.handler = "getStatistics" -> [rq EXCEPT !.pc = "st_count"]
      [] rq.handler = "createBook" -> createBook_begin(rq)
      [] rq.handler = "getBooks" -> [rq EXCEPT !.pc = "gb_find"]
      [] rq.handler = "getBooksByGenre" -> [rq EXCEPT !.pc = "gg_genre"]
      [] rq.handler = "getBookById" -> [rq EXCEPT !.pc = "gk_find"]
      [] rq.handler = "updateBook" -> updateBook_begin(rq)
      [] rq.handler = "deleteBook" -> [rq EXCEPT !.pc = "db_find"]
      [] rq.handler = "createGenre" -> createGenre_begin(rq)
      [] rq.handler = "getGenres" -> [rq EXCEPT !.pc = "gl_find"]
      [] rq.handler = "getGenreById" -> [rq EXCEPT !.pc = "ge_find"]
      [] rq.handler = "updateGenre" -> updateGenre_begin(rq)
      [] rq.handler = "deleteGenre" -> [rq EXCEPT !.pc = "dg_find"]
      [] rq.handler = "register" -> register_begin(rq)

\* `gone` is a history field, not program state: the books that were already
\* soft-deleted when the request arrived.
Accept(in, bks, txRouter) ==
    LET d == Dispatch(RouterOf(in.mount, txRouter), in.method, in.path, in.auth)
        rq == [IdleReq EXCEPT !.method = in.method, !.mount = in.mount, !.path = in.path,
                              !.auth = in.auth, !.body = in.body, !.query = in.query,
                              !.user = d.user, !.handler = d.handler, !.id = d.id,
                              !.gone = {b \in BookIds : bks[b].exists /\ bks[b].deleted}]
    IN  IF d.handler = "none"
        THEN Respond(rq, d.status, d.message, NoData)
        ELSE Begin(rq)

Free(r) == req[r].pc = "idle"

\* A request out of `inputs` arrives and takes the lowest free slot; `budget`
\* caps the requests of one behaviour.
Arrive(r, inputs, txRouter, budget) ==
    /\ nreq < budget
    /\ Free(r)
    /\ \A q \in Slots : q < r => ~Free(q)
    /\ \E in \in inputs : Commit(r, Accept(in, books, txRouter))
    /\ nreq' = nreq + 1
    /\ UNCHANGED <<books, orders, users, genres>>

----------------------------------------------------------------------------
(* Requests the environment sends *)

In(method, mount, path, auth, body, query) ==
    [method |-> method, mount |-> mount, path |-> path, auth |-> auth, body |-> body,
     query |-> query]

TokenOf(u) == Bearer(Token("ok", FALSE, u))

\* Headers authMiddleware turns away: none, another scheme, a bad signature,
\* an expired token.
BadHeaders ==
    { NoHeader, Basic(Token("ok", FALSE, "u1")), Bearer(Token("bad", FALSE, "u1")),
      Bearer(Token("ok", TRUE, "u1")) }

Item(b, q) == [book_id |-> b, quantity |-> q]

\* Orders of one line, of the same book twice, and of two books.
ItemLists ==
    {<<Item("b1", q)>> : q \in 1..MaxQty}
        \cup {<<Item("b1", MaxQty), Item("b1", 1)>>, <<Item("b1", 1), Item("b2", MaxQty)>>}

\* Bodies the schema rejects: no items, a quantity of 0.
BadItemLists == {<<>>, <<[book_id |-> "b1", quantity |-> 0]>>}

PostTransaction(auths, uids, lists) ==
    {In("POST", "transactions", <<>>, a, [user_id |-> u, items |-> l], NoBody) :
        a \in auths, u \in uids, l \in lists}

PatchBook(auths, ids, patches) ==
    {In("PATCH", "books", <<b>>, a, p, NoBody) : a \in auths, b \in ids, p \in patches}

DeleteBook(auths, ids) ==
    {In("DELETE", "books", <<b>>, a, NoBody, NoBody) : a \in auths, b \in ids}

PricePatch(p) == [has_price |-> TRUE, price |-> p, has_stock |-> FALSE, stock_quantity |-> 0]

----------------------------------------------------------------------------
(* Initial store: two genres, two books in stock, two registered users *)

BookRow(b, price, stock) ==
    [exists |-> TRUE, id |-> b, title |-> TitleOf(b), price |-> price,
     stock_quantity |-> stock, genre_id |-> GenreOf(b), deleted |-> FALSE]

GenreRow(g) == [exists |-> TRUE, id |-> g, name |-> NameOf(g), deleted |-> FALSE]

UserRow(u) == [id |-> u, email |-> EmailOf(u), hashed |-> TRUE]

InitStore ==
    /\ books = [b \in BookIds |-> BookRow(b, 10, MaxStock)]
    /\ genres = [g \in GenreIds |-> GenreRow(g)]
    /\ users = <<UserRow("u1"), UserRow("u2")>>
    /\ orders = <<>>

Init ==
    /\ InitStore
    /\ req = [r \in Slots |-> IdleReq]
    /\ last = IdleReq
    /\ nreq = 0

----------------------------------------------------------------------------
(* Orders specification: createTransaction against updateBook and deleteBook *)

TxInputs ==
    PostTransaction({TokenOf("u1")}, {NoId}, ItemLists \cup BadItemLists)
        \cup PatchBook({TokenOf("u1")}, {"b1"}, {PricePatch(20)})
        \cup DeleteBook({TokenOf("u1")}, {"b2"})

ArriveTx(r) == Arrive(r, TxInputs, transactionsRouter, MaxRequests)

NextTx ==
    \E r \in Slots :
        \/ ArriveTx(r)
        \/ TxValidate(r)
        \/ TxCreate(r)
        \/ TxDecrement(r)
        \/ UpdateBookFind(r)
        \/ UpdateBookWrite(r)
        \/ DeleteBookFind(r)
        \/ DeleteBookWrite(r)

Spec == Init /\ [][NextTx]_vars

----------------------------------------------------------------------------
(* Properties of the orders specification *)

RECURSIVE SumUpTo(_, _)
SumUpTo(f, n) == IF n = 0 THEN 0 ELSE f[n] + SumUpTo(f, n - 1)

\* The slot's request took a step.
Stepped(r) == req'[r] # req[r]

\* The request of slot r as the step leaves it: still in its slot, or answered.
After(r) == IF req'[r].pc = "idle" THEN last' ELSE req'[r]

IsTx(rq) == rq.handler = "createTransaction"

\* The line item names no active book, or more than the book has in stock.
Unorderable(bks, item) ==
    \/ item.book_id \notin BookIds
    \/ ~bks[item.book_id].exists
    \/ bks[item.book_id].deleted
    \/ bks[item.book_id].stock_quantity < item.quantity

\* Quantity ordered of book b by orders of a single line.
SingleLineQty(b) ==
    SumUpTo([k \in 1..Len(orders) |->
                IF Len(orders[k].items) = 1 /\ orders[k].items[1].book_id = b
                THEN orders[k].items[1].quantity ELSE 0], Len(orders))

\* C1: every Book's stock_quantity is >= 0 in every reachable state.
C1_StockNeverNegative == \A b \in BookIds : books[b].stock_quantity >= 0

\* C2: of the createTransaction requests against one Book only those that the
\* stock covers in arrival order succeed: the quantities of the successful
\* one-line orders of a book never add up to more than the stock it had
\* before them (every book starts with MaxStock, and no request of this
\* specification restocks), once all of them are answered.
C2_SuccessfulWithinStock ==
    (\A r \in Slots : req[r].pc = "idle") => \A b \in BookIds : SingleLineQty(b) <= MaxStock

\* C3: a createTransaction whose validation meets a line item that names a
\* missing or soft-deleted book, or asks for more than the book's stock, ends
\* there with 404 or 400 and has written nothing: no validation step changes
\* the Book or Order table, a request so answered never created its order nor
\* decremented, and the order is created only after every item was validated.
C3_FailedOrderWritesNothing ==
    [][ /\ \A r \in Slots :
            (req[r].pc = "tx_validate" /\ Stepped(r)) =>
                /\ books' = books
                /\ orders' = orders
                /\ Unorderable(books, req[r].loc.items[req[r].loc.i]) =>
                      /\ After(r).pc = "done"
                      /\ After(r).status \in {400, 404}
                      /\ After(r).status = 404 <=>
                            ~(/\ req[r].loc.items[req[r].loc.i].book_id \in BookIds
                              /\ books[req[r].loc.items[req[r].loc.i].book_id].exists
                              /\ ~books[req[r].loc.items[req[r].loc.i].book_id].deleted)
        /\ (IsTx(last') /\ last'.status \in {400, 404}) =>
                (last'.loc = NoLoc \/ (~last'.loc.order.exists /\ last'.loc.j = 1))
        /\ \A r \in Slots :
            req'[r].pc \in {"tx_create", "tx_decrement"} =>
                req'[r].loc.i = Len(req'[r].loc.items) + 1
      ]_vars

\* C3 witness: an order of two lines was turned away at its second line, the
\* first one validated, with the store untouched.
C3_Witness ==
    /\ IsTx(last) /\ last.status \in {400, 404}
    /\ last.loc # NoLoc
    /\ last.loc.i = 2
    /\ orders = <<>>

\* C4: a successful createTransaction decrements each line's book by exactly
\* the line's quantity and changes no other book; the order it returns holds
\* each book's price as it was when the order was created, and total_price is
\* the sum of quantity x that price (each subtotal quantity x price_each).
C4_DecrementAndTotal ==
    [][ /\ \A r \in Slots :
            (req[r].pc = "tx_create" /\ Stepped(r)) =>
                /\ books' = books
                /\ Len(orders') = Len(orders) + 1
                /\ LET o == After(r).loc.order IN
                   /\ o.id = orders'[Len(orders')].id
                   /\ Len(o.items) = Len(req[r].loc.items)
                   /\ \A k \in 1..Len(o.items) :
                        /\ o.items[k].book_id = req[r].loc.items[k].book_id
                        /\ o.items[k].quantity = req[r].loc.items[k].quantity
                        /\ o.items[k].book.price = books[o.items[k].book_id].price
                        /\ orders'[Len(orders')].items[k].quantity = o.items[k].quantity
                        /\ orders'[Len(orders')].items[k].book_id = o.items[k].book_id
        /\ \A r \in Slots :
            (req[r].pc = "tx_decrement" /\ Stepped(r)) =>
                LET item == req[r].loc.items[req[r].loc.j] IN
                /\ orders' = orders
                /\ After(r).loc.order = req[r].loc.order
                /\ After(r).loc.j = req[r].loc.j + 1
                /\ \A b \in BookIds :
                     books'[b] = IF b = item.book_id
                                 THEN [books[b] EXCEPT
                                        !.stock_quantity = books[b].stock_quantity - item.quantity]
                                 ELSE books[b]
        /\ (IsTx(last') /\ last'.status = 201) =>
                LET o == last'.loc.order
                    n == Len(o.items)
                IN  /\ last'.loc.j = n + 1
                    /\ Len(last'.data.items) = n
                    /\ last'.data.total_price =
                         SumUpTo([k \in 1..n |-> o.items[k].quantity * o.items[k].book.price], n)
                    /\ \A k \in 1..n :
                         /\ last'.data.items[k].price_each = o.items[k].book.price
                         /\ last'.data.items[k].quantity = o.items[k].quantity
                         /\ last'.data.items[k].subtotal =
                                last'.data.items[k].quantity * last'.data.items[k].price_each
      ]_vars

\* C4 witness: an order of two lines succeeded, priced at creation, while the
\* book's price has changed since.
C4_Witness ==
    /\ IsTx(last) /\ last.status = 201
    /\ Len(last.loc.items) = 2
    /\ last.loc.items[1].quantity = MaxQty
    /\ last.data.items[1].price_each # books[last.data.items[1].book_id].price

----------------------------------------------------------------------------
(* Soft-delete specification: deleteBook against orders and the reads *)

Get(mount, path, auths, query) ==
    {In("GET", mount, path, a, NoBody, query) : a \in auths}

Page(search, page, limit) == [search |-> search, page |-> page, limit |-> limit]

DeleteInputs ==
    PostTransaction({TokenOf("u1")}, {NoId},
                    {<<Item("b2", 1)>>, <<Item("b1", MaxQty), Item("b2", 1)>>})
        \cup DeleteBook({TokenOf("u1")}, {"b2"})
        \cup Get("books", <<>>, {TokenOf("u1")}, Page(NoId, 1, 10))
        \cup Get("books", <<"b2">>, {TokenOf("u1")}, NoBody)
        \cup Get("books", <<"genre", "g2">>, {TokenOf("u1")}, NoBody)
        \cup Get("transactions", <<>>, {TokenOf("u1")}, [all |-> FALSE])
        \cup Get("transactions", <<"o1">>, {TokenOf("u1")}, NoBody)

ArriveDelete(r) == Arrive(r, DeleteInputs, transactionsRouter, MaxRequests)

NextDelete ==
    \E r \in Slots :
        \/ ArriveDelete(r)
        \/ TxValidate(r)
        \/ TxCreate(r)
        \/ TxDecrement(r)
        \/ DeleteBookFind(r)
        \/ DeleteBookWrite(r)
        \/ GetBooks(r)
        \/ GetBookById(r)
        \/ GetBooksByGenreFind(r)
        \/ GetBooksByGenreList(r)
        \/ GetTransactions(r)
        \/ GetTransactionById(r)

SpecDelete == Init /\ [][NextDelete]_vars

\* The index of the first line of the request that names a book which was
\* soft-deleted when the request arrived (0: none).
FirstGone(rq) ==
    IF \E k \in 1..Len(rq.body.items) : rq.body.items[k].book_id \in rq.gone
    THEN CHOOSE k \in 1..Len(rq.body.items) :
            /\ rq.body.items[k].book_id \in rq.gone
            /\ \A m \in 1..(k - 1) : rq.body.items[m].book_id \notin rq.gone
    ELSE 0

InSeq(x, s) == \E k \in 1..Len(s) : s[k] = x

\* What C5 says of the reads, of the deletion and of the orders, on one step.
C5_ReadsAndOrders ==
    /\ \A b \in BookIds : books[b].deleted => books'[b].deleted
    /\ \A r \in Slots :
        /\ (req[r].pc = "db_update" /\ Stepped(r)) => books'[req[r].id].deleted
        /\ (req[r].pc = "gb_find" /\ Stepped(r)) =>
                \A b \in BookIds : books[b].deleted => ~InSeq(b, last'.data.list)
        /\ (req[r].pc = "gg_books" /\ Stepped(r)) =>
                \A b \in BookIds : books[b].deleted => ~InSeq(b, last'.data.list)
        /\ (req[r].pc = "gk_find" /\ Stepped(r) /\ req[r].id \in BookIds
                /\ books[req[r].id].deleted) => last'.status = 404
        /\ (req[r].pc = "gi_find" /\ Stepped(r)) =>
                \A k \in 1..Len(orders) :
                    orders[k].id = req[r].id =>
                        /\ last'.status = 200
                        /\ last'.data.order.id = orders[k].id
                        /\ Len(last'.data.order.items) = Len(orders[k].items)
                        /\ \A m \in 1..Len(orders[k].items) :
                              /\ last'.data.order.items[m].book_id = orders[k].items[m].book_id
                              /\ last'.data.order.items[m].quantity = orders[k].items[m].quantity
        /\ (req[r].pc = "gt_find" /\ Stepped(r)) =>
                /\ last'.status = 200
                /\ \A k \in 1..Len(orders) :
                    (req[r].query.all \/ orders[k].user_id = req[r].user.id) =>
                        \E m \in 1..Len(last'.data.list) :
                            /\ last'.data.list[m].id = orders[k].id
                            /\ Len(last'.data.list[m].items) = Len(orders[k].items)

\* A createTransaction that names a book deleted before it arrived has created
\* no order, and is not past validation.
NoOrderOfGone(rq) ==
    (IsTx(rq) /\ rq.loc # NoLoc /\ FirstGone(rq) > 0) =>
        /\ ~rq.loc.order.exists
        /\ rq.loc.j = 1
        /\ rq.pc \in {"tx_validate", "done"}
        /\ rq.loc.i <= FirstGone(rq)

\* C5 as stated: once deleteBook has succeeded for a book it is returned by
\* none of getBooks, getBookById, getBooksByGenre, every later createTransaction
\* that names it fails with 404 and creates no order, and the orders that
\* reference it are still returned by getTransactionById and getTransactions.
C5_LaterOrderIs404 ==
    [][ /\ C5_ReadsAndOrders
        /\ NoOrderOfGone(last')
        /\ \A r \in Slots : NoOrderOfGone(req'[r])
        /\ (IsTx(last') /\ last'.loc # NoLoc /\ FirstGone(last') > 0) => last'.status = 404
      ]_vars

\* C5 amended: the later createTransaction fails and creates no order; it is
\* answered 404, unless an earlier line of it is turned away first for
\* insufficient stock (400).
C5_LaterOrderFails ==
    [][ /\ C5_ReadsAndOrders
        /\ NoOrderOfGone(last')
        /\ \A r \in Slots : NoOrderOfGone(req'[r])
        /\ (IsTx(last') /\ last'.loc # NoLoc /\ FirstGone(last') > 0) =>
              \/ last'.status = 404 /\ last'.loc.i = FirstGone(last')
              \/ /\ last'.status = 400
                 /\ last'.message = "Insufficient stock"
                 /\ last'.loc.i < FirstGone(last')
      ]_vars

\* C5 witness: an order names b2, b2 is deleted, a later order naming b2 was
\* answered 404, and the first order is still in the store.
C5_Witness ==
    /\ IsTx(last) /\ last.status = 404
    /\ "b2" \in last.gone
    /\ Len(orders) = 1
    /\ \E k \in 1..Len(orders[1].items) : orders[1].items[k].book_id = "b2"

----------------------------------------------------------------------------
(* Statistics specification: getStatistics against orders and a price change, *)
(* under the router that registers /statistics before /:id                   *)

InitStats ==
    /\ books = [b \in BookIds |-> BookRow(b, 10, 2 * MaxQty + 1)]
    /\ genres = [g \in GenreIds |-> GenreRow(g)]
    /\ users = <<UserRow("u1"), UserRow("u2")>>
    /\ orders = <<>>
    /\ req = [r \in Slots |-> IdleReq]
    /\ last = IdleReq
    /\ nreq = 0

StatsInputs ==
    PostTransaction({TokenOf("u1")}, {NoId}, {<<Item("b1", MaxQty)>>, <<Item("b1", MaxQty + 1)>>})
        \cup PatchBook({TokenOf("u1")}, {"b1"}, {PricePatch(20)})
        \cup Get("transactions", <<"statistics">>, {TokenOf("u1")}, NoBody)

ArriveStats(r) == Arrive(r, StatsInputs, transactionsRouterVariant, MaxRequests + 1)

NextStats ==
    \E r \in Slots :
        \/ ArriveStats(r)
        \/ TxValidate(r)
        \/ TxCreate(r)
        \/ TxDecrement(r)
        \/ UpdateBookFind(r)
        \/ UpdateBookWrite(r)
        \/ StatsCount(r)
        \/ StatsItems(r)

SpecStats == InitStats /\ [][NextStats]_vars

\* Sum over all OrderItem rows of all orders of F(item).
ItemsTotal(os, F(_)) ==
    SumUpTo([k \in 1..Len(os) |->
                SumUpTo([m \in 1..Len(os[k].items) |-> F(os[k].items[m])], Len(os[k].items))],
            Len(os))

\* C7: getStatistics reports the number of Order rows (as its count read
\* them), the sum of quantity over all OrderItem rows and the sum of quantity x
\* the book's current price (as its findMany read them); two orders of 2 and 3
\* of a book priced 10 give 5 books sold and revenue 50, and a changed price
\* changes the revenue.
C7_Statistics ==
    [][ \A r \in Slots :
          /\ (req[r].pc = "st_count" /\ Stepped(r)) =>
                /\ After(r).pc = "st_items"
                /\ After(r).loc.totalTransactions = Len(orders)
          /\ (req[r].pc = "st_items" /\ Stepped(r)) =>
                /\ last'.status = 200
                /\ last'.data.totalTransactions = req[r].loc.totalTransactions
                /\ last'.data.totalBooksSold = ItemsTotal(orders, LAMBDA i : i.quantity)
                /\ last'.data.totalRevenue =
                      ItemsTotal(orders, LAMBDA i : i.quantity * books[i.book_id].price)
                /\ ( /\ Len(orders) = 2
                     /\ \A k \in 1..2 : Len(orders[k].items) = 1 /\ orders[k].items[1].book_id = "b1"
                     /\ {orders[1].items[1].quantity, orders[2].items[1].quantity} = {2, 3} ) =>
                        /\ last'.data.totalBooksSold = 5
                        /\ books["b1"].price = 10 => last'.data.totalRevenue = 50
                        /\ books["b1"].price = 20 => last'.data.totalRevenue = 100
      ]_vars

\* C7 witness: statistics over two orders, of MaxQty and of MaxQty + 1 of b1,
\* read after the price of b1 went from 10 to 20.
C7_Witness ==
    /\ last.handler = "getStatistics" /\ last.status = 200
    /\ last.data.totalTransactions = 2
    /\ last.data.totalBooksSold = 2 * MaxQty + 1
    /\ last.data.totalRevenue = 20 * (2 * MaxQty + 1)

----------------------------------------------------------------------------
(* HTTP specification: every route of the three protected routers, with and *)
(* without a valid bearer token, as index.ts mounts them                     *)

InitHttp ==
    /\ books = [b \in BookIds |-> IF b = "b1" THEN BookRow(b, 10, MaxStock) ELSE NoBook]
    /\ genres = [g \in GenreIds |-> IF g = "g1" THEN GenreRow(g) ELSE NoGenre]
    /\ users = <<UserRow("u1"), UserRow("u2")>>
    /\ orders = <<>>
    /\ req = [r \in Slots |-> IdleReq]
    /\ last = IdleReq
    /\ nreq = 0

Headers == BadHeaders \cup {TokenOf("u1")}

NewBook == [title |-> "t2", price |-> 10, stock_quantity |-> 1, genre_id |-> "g1"]

HttpInputs ==
    {In("POST", "books", <<>>, a, NewBook, NoBody) : a \in Headers}
        \cup Get("books", <<>>, Headers, Page(NoId, 1, 10))
        \cup Get("books", <<"genre", "g1">>, Headers, NoBody)
        \cup Get("books", <<"b1">>, Headers, NoBody)
        \cup PatchBook(Headers, {"b1"}, {PricePatch(20)})
        \cup DeleteBook(Headers, {"b1"})
        \cup {In("POST", "genres", <<>>, a, [name |-> "n2"], NoBody) : a \in Headers}
        \cup Get("genres", <<>>, Headers, Page(NoId, 1, 10))
        \cup Get("genres", <<"g1">>, Headers, NoBody)
        \cup {In("PATCH", "genres", <<"g1">>, a, [name |-> "n3"], NoBody) : a \in Headers}
        \cup {In("DELETE", "genres", <<"g1">>, a, NoBody, NoBody) : a \in Headers}
        \cup PostTransaction(Headers, {NoId}, {<<Item("b1", 1)>>})
        \cup Get("transactions", <<>>, Headers, [all |-> TRUE])
        \cup Get("transactions", <<"o1">>, Headers, NoBody)
        \cup Get("transactions", <<"statistics">>, Headers, NoBody)

ArriveHttp(r) == Arrive(r, HttpInputs, transactionsRouter, MaxRequests - 1)

NextHttp ==
    \E r \in Slots :
        \/ ArriveHttp(r)
        \/ TxValidate(r)
        \/ TxCreate(r)
        \/ TxDecrement(r)
        \/ GetTransactions(r)
        \/ GetTransactionById(r)
        \/ CreateBookGenre(r)
        \/ CreateBookTitle(r)
        \/ CreateBookWrite(r)
        \/ GetBooks(r)
        \/ GetBooksByGenreFind(r)
        \/ GetBooksByGenreList(r)
        \/ GetBookById(r)
        \/ UpdateBookFind(r)
        \/ UpdateBookWrite(r)
        \/ DeleteBookFind(r)
        \/ DeleteBookWrite(r)
        \/ CreateGenreFind(r)
        \/ CreateGenreWrite(r)
        \/ GetGenres(r)
        \/ GetGenreById(r)
        \/ UpdateGenreFind(r)
        \/ UpdateGenreWrite(r)
        \/ DeleteGenreFind(r)
        \/ DeleteGenreWrite(r)

SpecHttp == InitHttp /\ [][NextHttp]_vars

Protected == {"books", "genres", "transactions"}

\* The header carries a signed, unexpired bearer token.
ValidBearer(auth) == auth.scheme = "Bearer" /\ auth.token.sig = "ok" /\ ~auth.token.expired

\* The request carries the identity decoded from its own token.
Identified(rq) ==
    /\ ValidBearer(rq.auth)
    /\ rq.user.set
    /\ rq.user.id = rq.auth.token.id
    /\ rq.user.email = rq.auth.token.email

IsStatistics(rq) ==
    rq.method = "GET" /\ rq.mount = "transactions" /\ rq.path = <<"statistics">>

\* C6: GET /transactions/statistics with a valid bearer token is handled by
\* getStatistics and answered 200, not by getTransactionById.
C6_StatisticsReachesGetStatistics ==
    /\ \A r \in Slots :
        (req[r].pc # "idle" /\ IsStatistics(req[r]) /\ ValidBearer(req[r].auth)) =>
            req[r].handler = "getStatistics"
    /\ (last.pc = "done" /\ IsStatistics(last) /\ ValidBearer(last.auth)) =>
            (last.handler = "getStatistics" /\ last.status = 200)

\* C9: on every /books, /genres and /transactions route the controller runs
\* only for a request whose bearer token authMiddleware verified and whose
\* decoded identity it attached; a request whose header is missing, is not a
\* Bearer header, or carries an invalid or expired token is answered 401 on
\* arrival, reaches no controller and leaves the store as it was.
C9_AuthBeforeController ==
    [][ /\ \A r \in Slots :
            (req'[r].pc # "idle" /\ req'[r].mount \in Protected) =>
                (req'[r].handler # "none" /\ Identified(req'[r]))
        /\ (last'.pc = "done" /\ last'.mount \in Protected) =>
            /\ last'.handler # "none" => Identified(last')
            /\ ~ValidBearer(last'.auth) =>
                  /\ last'.status = 401
                  /\ last'.handler = "none"
                  /\ ~last'.user.set
                  /\ last'.loc = NoLoc
        /\ (nreq' = nreq + 1 /\ last' # last /\ last'.status = 401) =>
            /\ req' = req
            /\ <<books, orders, users, genres>>' = <<books, orders, users, genres>>
        /\ (<<books, orders, users, genres>>' # <<books, orders, users, genres>>) =>
            \E r \in Slots : req[r].pc # "idle" /\ Stepped(r) /\ Identified(req[r])
      ]_vars

\* C9 witness: after an authenticated request changed the store, a request
\* with an expired token for a /books route was answered 401.
C9_Witness ==
    /\ last.status = 401
    /\ last.mount = "books"
    /\ last.auth.scheme = "Bearer" /\ last.auth.token.expired
    /\ (books # [b \in BookIds |-> IF b = "b1" THEN BookRow(b, 10, MaxStock) ELSE NoBook]
        \/ genres # [g \in GenreIds |-> IF g = "g1" THEN GenreRow(g) ELSE NoGenre])

----------------------------------------------------------------------------
(* Identity specification: createTransaction with a user_id in the body *)

IdentityInputs ==
    PostTransaction({TokenOf(u) : u \in UserIds}, UserIds \cup {NoId},
                    {<<Item("b1", 1)>>, <<Item("b9", 1)>>})
        \cup Get("transactions", <<>>, {TokenOf(u) : u \in UserIds}, [all |-> FALSE])

ArriveIdentity(r) == Arrive(r, IdentityInputs, transactionsRouter, MaxRequests)

NextIdentity ==
    \E r \in Slots :
        \/ ArriveIdentity(r)
        \/ TxValidate(r)
        \/ TxCreate(r)
        \/ TxDecrement(r)
        \/ GetTransactions(r)

SpecIdentity == Init /\ [][NextIdentity]_vars

\* The order row the request created.
OrderRowOf(rq) == orders[CHOOSE k \in 1..Len(orders) : orders[k].id = rq.loc.order.id]

\* C10 as stated: a caller with a valid token who sends in the body a user_id
\* other than the id of the token has the order recorded under, and returned
\* with, the body's user_id.
C10_BodyUserIdRecorded ==
    (/\ IsTx(last) /\ last.status = 201
     /\ last.body.user_id # NoId
     /\ last.body.user_id # last.auth.token.id) =>
        /\ last.data.user_id = last.body.user_id
        /\ OrderRowOf(last).user_id = last.body.user_id

\* C10 amended: the body's user_id is only the fallback for a request without
\* an identity, and authMiddleware attaches one to every request that reaches
\* createTransaction: every order is recorded under, and returned with, the
\* id of the caller's own token, whatever user_id the body carries, and
\* getTransactions lists to a caller the orders recorded under the token's id.
C10_TokenIdRecorded ==
    [][ /\ \A r \in Slots :
            /\ (req'[r].pc # "idle" /\ IsTx(req'[r])) =>
                    req'[r].loc.userId = req'[r].auth.token.id
            /\ (req[r].pc = "tx_create" /\ Stepped(r)) =>
                    /\ Len(orders') = Len(orders) + 1
                    /\ orders'[Len(orders')].user_id = req[r].auth.token.id
                    /\ SubSeq(orders', 1, Len(orders)) = orders
            /\ (req[r].pc = "gt_find" /\ Stepped(r)) =>
                    \A m \in 1..Len(last'.data.list) :
                        last'.data.list[m].user_id = req[r].auth.token.id
        /\ (IsTx(last') /\ last'.status = 201) =>
                last'.data.user_id = last'.auth.token.id
      ]_vars

\* C10 witness: an order sent with the token of u1 and user_id u2 in the body
\* was created, recorded under u1.
C10_Witness ==
    /\ IsTx(last) /\ last.status = 201
    /\ last.auth.token.id = "u1"
    /\ last.body.user_id = "u2"
    /\ last.data.user_id = "u1"
    /\ OrderRowOf(last).user_id = "u1"

----------------------------------------------------------------------------
(* Registration specification *)

RegisterBody(email, ok, len) == [email |-> email, email_ok |-> ok, password_len |-> len]

RegisterInputs ==
    {In("POST", "auth", <<"register">>, NoHeader, b, NoBody) :
        b \in {RegisterBody("e1", TRUE, MinPasswordLen), RegisterBody("e3", TRUE, MinPasswordLen),
               RegisterBody("e3", TRUE, MinPasswordLen - 1), RegisterBody("e4", FALSE, MinPasswordLen)}}

ArriveRegister(r) == Arrive(r, RegisterInputs, transactionsRouter, MaxRequests)

NextRegister ==
    \E r \in Slots :
        \/ ArriveRegister(r)
        \/ RegisterFind(r)
        \/ RegisterWrite(r)

SpecRegister == Init /\ [][NextRegister]_vars

\* C8: of the register requests with one email at most one creates a User row
\* and every other one is answered 409; no two users share an email.
C8_DuplicateEmailIsConflict ==
    /\ \A k, m \in 1..Len(users) : users[k].email = users[m].email => k = m
    /\ (last.handler = "register" /\ ParseRegister(last.body) /\ last.status # 201) =>
            last.status = 409

----------------------------------------------------------------------------
(* Book creation specification: createBook against deleteGenre and against *)
(* another createBook                                                        *)

BookBody(title, genre, price) ==
    [title |-> title, price |-> price, stock_quantity |-> 1, genre_id |-> genre]

BookInputs ==
    {In("POST", "books", <<>>, TokenOf("u1"), b, NoBody) :
        b \in {BookBody("t2", "g1", 10), BookBody("t1", "g1", 10),
               BookBody("t2", "g2", 10), BookBody("t2", "g1", 0)}}
        \cup {In("DELETE", "genres", <<"g1">>, TokenOf("u1"), NoBody, NoBody)}

ArriveBook(r) == Arrive(r, BookInputs, transactionsRouter, MaxRequests)

NextBook ==
    \E r \in Slots :
        \/ ArriveBook(r)
        \/ CreateBookGenre(r)
        \/ CreateBookTitle(r)
        \/ CreateBookWrite(r)
        \/ DeleteGenreFind(r)
        \/ DeleteGenreWrite(r)

SpecBook == InitHttp /\ [][NextBook]_vars

\* The genre is in the store and not soft-deleted.
LiveGenre(gs, g) == g \in GenreIds /\ gs[g].exists /\ ~gs[g].deleted

\* C11: createBook creates a Book row only if, when it creates it, the
\* referenced Genre exists and is not soft-deleted and no Book has the title;
\* a createBook that passed the schema and created no row is answered 404 or
\* 409 and leaves the Book table as it was, under every interleaving with
\* deleteGenre and with other createBook requests.
C11_BookOnlyUnderLiveGenre ==
    [][ \A r \in Slots :
          (req[r].handler = "createBook" /\ Stepped(r)) =>
              /\ books' # books =>
                    /\ req[r].pc = "cb_create"
                    /\ LiveGenre(genres, req[r].body.genre_id)
                    /\ ~findUniqueTitle(books, req[r].body.title)
                    /\ After(r).status = 201
              /\ (After(r).pc = "done" /\ After(r).status # 201) =>
                    /\ books' = books
                    /\ After(r).status \in {404, 409}
                    /\ After(r).status = 404 => ~LiveGenre(genres, req[r].body.genre_id)
                    /\ After(r).status = 409 => findUniqueTitle(books, req[r].body.title)
      ]_vars

----------------------------------------------------------------------------
(* Failure specification: a store call that throws inside createTransaction, *)
(* and an error handed to next(err) before any router is reached            *)

\* What a failing call throws or a middleware hands to next(err): statusCode 0
\* and message "" stand for the absent property.
Err(statusCode, message) == [statusCode |-> statusCode, message |-> message]

Errors == {Err(0, ""), Err(0, "connect ECONNREFUSED"), Err(400, "Unexpected token")}

\* catch (error) { console.error(error); return res.status(500).json(...) }
controllerCatch(rq, error) == Respond(rq, 500, "Internal server error", NoData)

\* errorMiddleware: err.statusCode || 500, err.message || "Internal Server
\* Error", data { error: err }
errorMiddleware(err, rq) ==
    Respond(rq,
            IF err.statusCode # 0 THEN err.statusCode ELSE 500,
            IF err.message # "" THEN err.message ELSE "Internal Server Error",
            [error |-> err])

\* An awaited store call of the request in slot r rejects: the controller's
\* catch answers, the store is as it was before the call.
StoreFails(r) ==
    /\ req[r].pc # "idle"
    /\ \E error \in Errors : Commit(r, controllerCatch(req[r], error))
    /\ UNCHANGED <<books, orders, users, genres, nreq>>

\* A request arrives and a middleware of the app (express.json on a body it
\* cannot parse, the logger) hands an error to next(err): express skips to
\* the error handler index.ts registers last.
ArriveFailing(r, inputs, budget) ==
    /\ nreq < budget
    /\ Free(r)
    /\ \A q \in Slots : q < r => ~Free(q)
    /\ \E in \in inputs, err \in Errors :
          Commit(r, errorMiddleware(err,
                      [IdleReq EXCEPT !.method = in.method, !.mount = in.mount,
                                      !.path = in.path, !.auth = in.auth,
                                      !.handler = "errorMiddleware"]))
    /\ nreq' = nreq + 1
    /\ UNCHANGED <<books, orders, users, genres>>

FailInputs ==
    PostTransaction({TokenOf("u1")}, {NoId},
                    {<<Item("b1", 1)>>, <<Item("b1", 1), Item("b2", MaxQty)>>})

ArriveFail(r) == Arrive(r, FailInputs, transactionsRouter, MaxRequests)

ArriveFailingFail(r) == ArriveFailing(r, FailInputs, MaxRequests)

NextFail ==
    \E r \in Slots :
        \/ ArriveFail(r)
        \/ ArriveFailingFail(r)
        \/ TxValidate(r)
        \/ TxCreate(r)
        \/ TxDecrement(r)
        \/ StoreFails(r)

SpecFail == Init /\ [][NextFail]_vars

GenericMessages == {"Internal server error", "Internal Server Error"}

\* C12: a failure caught by a controller and a failure that reaches the global
\* error handler are both answered 500 with a generic message and a body
\* without data: no error object, no message of the error.
C12_FailureIsGeneric500 ==
    [][ /\ \A r \in Slots :
            (req[r].pc # "idle" /\ Stepped(r) /\ After(r).status >= 500) =>
                /\ After(r).status = 500
                /\ After(r).message \in GenericMessages
                /\ After(r).data = NoData
        /\ (last' # last /\ last'.handler = "errorMiddleware") =>
                /\ last'.status = 500
                /\ last'.message \in GenericMessages
                /\ last'.data = NoData
      ]_vars

\* Quantity of book b over the OrderItem rows of all stored orders.
OrderedQty(b) == ItemsTotal(orders, LAMBDA i : IF i.book_id = b THEN i.quantity ELSE 0)

\* C13: whenever no createTransaction is in flight, each book's initial stock
\* minus its current stock is the quantity of it in the stored OrderItem rows,
\* also after a request that ended with 500 because a store call failed once
\* its Order was created.
C13_StockConservation ==
    (\A r \in Slots : ~IsTx(req[r])) =>
        \A b \in BookIds : MaxStock - books[b].stock_quantity = OrderedQty(b)

====
